---- MODULE Spec2Model ----
(***************************************************************************)
(* Model of the analysis core of nih_plug_spectrum_analyser:               *)
(*   - SpectrumProducer / SpectrumConsumer (src/audio/spectrum.rs): ring   *)
(*     accumulation, windowing, forward transform, dB conversion, tilt,    *)
(*     blending, smoothing, and the triple-buffer relay to the UI thread;  *)
(*   - MeterProducer / MeterConsumer (src/audio/meter.rs): the two atomic  *)
(*     peak levels and the UI-side smoothing / peak hold.                  *)
(*                                                                         *)
(* f32 values are records [k, v]: k = "fin" with v an integer (decibel     *)
(* quantities in thousandths of a dB, samples in arbitrary amplitude       *)
(* units), k = "huge" for a finite sample so large that a sum over the     *)
(* window overflows f32, and k = "nan" / "pinf" / "ninf".                  *)
(***************************************************************************)
EXTENDS Integers, Sequences, FiniteSets, TLC

\* ------------------------------------------------------------------ bounds
\* The analysis window is scaled down from 2048 = 2^11 to 2^WindowLog2;
\* everything derived from it (bins, hop, ring length) is computed from it as
\* the code computes it.
WindowLog2 == 2
\* spectrum.rs:12
SPECTRUM_WINDOW_SIZE_USIZE == 2 ^ WindowLog2
\* Number of process() and write_silence() calls the audio thread makes in a run.
MaxCalls == 2
\* Number of SpectrumConsumer::read calls that return in a run.
MaxReads == 2
\* Number of operations, of all threads together, in a run of both relays.
MaxOps == 3
\* How close to the floor, in thousandths of a dB, counts as converged.
Tolerance == 1000
\* The most updates that may load a level above the floor.
MaxHighs == 2
\* The most updates at a steady level: past one hold timeout.
HoldRuns == 62
\* The most frames the editor renders.
MaxFrames == 40
\* The most callbacks the host makes on the legacy path.
MaxCallbacks == 8
\* The number of bins of the frames given to the frequency smoothing alone.
FrameLen == 5
\* The most raw frames fed to the smoother.
MaxFed == 3
\* The highest count of silent updates told apart; above the 30 of meter.rs:188.
MaxSilence == 31
\* Numbers of update_peaks() and MeterConsumer::update() calls in a run.
MaxPeaks == 2
MaxUpdates == 2

\* ------------------------------------------------------------- f32 values
Fin(x) == [k |-> "fin", v |-> x]
Huge == [k |-> "huge", v |-> 0]
NaN == [k |-> "nan", v |-> 0]
PInf == [k |-> "pinf", v |-> 0]
NInf == [k |-> "ninf", v |-> 0]

IsFinite(a) == a.k = "fin"
IsNaN(a) == a.k = "nan"

FNeg(a) ==
  CASE a.k = "fin" -> Fin(0 - a.v)
    [] a.k = "pinf" -> NInf
    [] a.k = "ninf" -> PInf
    [] OTHER -> a

\* IEEE addition on the decibel domain (no "huge" values occur there).
FAdd(a, b) ==
  CASE a.k = "nan" \/ b.k = "nan" -> NaN
    [] a.k = "pinf" /\ b.k = "ninf" -> NaN
    [] a.k = "ninf" /\ b.k = "pinf" -> NaN
    [] a.k = "pinf" \/ b.k = "pinf" -> PInf
    [] a.k = "ninf" \/ b.k = "ninf" -> NInf
    [] OTHER -> Fin(a.v + b.v)

FSub(a, b) == FAdd(a, FNeg(b))

\* a * (num / den) for a non-negative rational num/den, den > 0.
FMulQ(a, num, den) ==
  CASE a.k = "nan" -> NaN
    [] a.k \in {"pinf", "ninf"} -> IF num = 0 THEN NaN ELSE a
    [] OTHER -> Fin((a.v * num) \div den)

\* a > b as f32 compares: FALSE whenever either side is NaN.
FGt(a, b) ==
  CASE a.k = "nan" \/ b.k = "nan" -> FALSE
    [] a.k = "pinf" -> b.k # "pinf"
    [] a.k = "ninf" -> FALSE
    [] b.k = "pinf" -> FALSE
    [] b.k = "ninf" -> TRUE
    [] OTHER -> a.v > b.v

FLt(a, b) == FGt(b, a)

\* f32::max: if one argument is NaN the other is returned.
FMax(a, b) ==
  CASE a.k = "nan" -> b
    [] b.k = "nan" -> a
    [] FGt(b, a) -> b
    [] OTHER -> a

\* ---------------------------------------------------- program constants
\* spectrum.rs:18   SPECTRUM_BINS = SPECTRUM_WINDOW_SIZE_USIZE / 2 + 1
SPECTRUM_BINS == SPECTRUM_WINDOW_SIZE_USIZE \div 2 + 1
\* spectrum.rs:24   SPECTRUM_FLOOR_DB = -120.0, in thousandths of a dB
SPECTRUM_FLOOR_DB == -120000
\* spectrum.rs:30
RING_BUFFER_SIZE_MULTIPLIER == 2

FloorDb == Fin(SPECTRUM_FLOOR_DB)
\* [SPECTRUM_FLOOR_DB; SPECTRUM_BINS]
SilenceFrame == [i \in 1..SPECTRUM_BINS |-> FloorDb]

Readers == {"ui1", "ui2"}

\* ------------------------------------------------------ triple buffer
\* TripleBuffer::new(&[SPECTRUM_FLOOR_DB; SPECTRUM_BINS]).split(): all three
\* slots hold the initial value; back index 0, input index 1, output index 2.
Build ==
  [buffers |-> [s \in 0..2 |-> SilenceFrame],
   back_info |-> [idx |-> 0, dirty |-> FALSE],
   input_idx |-> 1,
   output_idx |-> 2]

\* Input::publish: swap the back index with the input index, set dirty.
PublishBroken(bi, inp) ==
  [back_info |-> [idx |-> inp, dirty |-> TRUE], input_idx |-> inp]
Publish(bi, inp) ==
  [back_info |-> [idx |-> inp, dirty |-> TRUE], input_idx |-> bi.idx]

\* Output::update: whether the back slot holds a frame newer than the output's.
UpdatedInverted(bi) == ~bi.dirty
UpdatedAlways(bi) == TRUE
Updated(bi) == bi.dirty

\* Output::update after it saw the dirty bit: swap back and output, clear dirty.
OutputSwapKeepsOutput(bi, out) ==
  [back_info |-> [idx |-> out, dirty |-> FALSE], output_idx |-> out]
OutputSwap(bi, out) ==
  [back_info |-> [idx |-> out, dirty |-> FALSE], output_idx |-> bi.idx]

\* Mutex::try_lock on the Output: never waits.
TryLockWaits(m) == IF m = "free" THEN "Ok" ELSE "Wait"
TryLock(m) == IF m = "free" THEN "Ok" ELSE "WouldBlock"

\* ------------------------------------------------------------ ring buffer
\* spectrum.rs:303-304  (SPECTRUM_WINDOW_SIZE_USIZE as f32 * FFT_OVERLAP_FACTOR) as usize
HopSize == SPECTRUM_WINDOW_SIZE_USIZE \div 2
\* spectrum.rs:258
RingLen == SPECTRUM_WINDOW_SIZE_USIZE * RING_BUFFER_SIZE_MULTIPLIER

\* A Buffer is a sequence of channels, each a sequence of samples.
Channels(buffer) == Len(buffer)
Samples(buffer) == IF Len(buffer) = 0 THEN 0 ELSE Len(buffer[1])

\* f32 addition and division by the channel count on samples.
SampleAdd(a, b) ==
  CASE a.k = "nan" \/ b.k = "nan" -> NaN
    [] a.k = "pinf" \/ b.k = "pinf" -> PInf
    [] a.k = "huge" \/ b.k = "huge" -> Huge
    [] OTHER -> Fin(a.v + b.v)
SampleDiv(a, n) == IF a.k = "fin" THEN Fin(a.v \div n) ELSE a

RECURSIVE ChannelSum(_, _, _)
ChannelSum(buffer, idx, c) ==
  IF c > Channels(buffer) THEN Fin(0)
  ELSE SampleAdd(buffer[c][idx], ChannelSum(buffer, idx, c + 1))

\* spectrum.rs:349-353
MonoSample(buffer, idx) == SampleDiv(ChannelSum(buffer, idx, 1), Channels(buffer))

\* spectrum.rs:347-361, one iteration after the other; st = [ring, pos, ssf].
RECURSIVE PushFrom(_, _, _)
PushFrom(st, buffer, idx) ==
  IF idx > Samples(buffer) THEN st
  ELSE PushFrom([ring |-> [st.ring EXCEPT ![st.pos + 1] = MonoSample(buffer, idx)],
                 pos |-> (st.pos + 1) % Len(st.ring),
                 ssf |-> st.ssf + 1], buffer, idx + 1)

\* SpectrumProducer::add_samples_to_ring_buffer
AddSamplesToRingBuffer(st, buffer) ==
  IF Channels(buffer) = 0 \/ Samples(buffer) = 0 THEN st
  ELSE PushFrom(st, buffer, 1)

\* spectrum.rs:369-373
StartPosWrong(pos, ring_len) ==
  IF pos >= SPECTRUM_WINDOW_SIZE_USIZE THEN pos - SPECTRUM_WINDOW_SIZE_USIZE
  ELSE ring_len - SPECTRUM_WINDOW_SIZE_USIZE
StartPos(pos, ring_len) ==
  IF pos >= SPECTRUM_WINDOW_SIZE_USIZE THEN pos - SPECTRUM_WINDOW_SIZE_USIZE
  ELSE ring_len - (SPECTRUM_WINDOW_SIZE_USIZE - pos)

\* SpectrumProducer::copy_from_ring_buffer: the samples, oldest first.
CopyFromRingBuffer(ring, pos) ==
  [i \in 1..SPECTRUM_WINDOW_SIZE_USIZE |->
     ring[((StartPos(pos, Len(ring)) + (i - 1)) % Len(ring)) + 1]]

\* ---------------------------------------------------------- windowing
\* An element of time_domain_buffer: the sample x it was copied from and the
\* windows it has been multiplied by since, in order.  x.k = "scr" stands for
\* the unspecified finite contents the transform leaves in its input buffer.
Raw(x) == [x |-> x, win |-> <<>>]
Scratch == [k |-> "scr", v |-> 0]

\* window_functions.rs:190-201  AdaptiveWindowStrategy::default, band edges in
\* thousandths of a Hz.
WindowStrategy ==
  [low_freq_window |-> "Hann", mid_freq_window |-> "Hann",
   high_freq_window |-> "Blackman",
   low_mid_crossfade |-> <<480000, 520000>>,
   mid_high_crossfade |-> <<8000000, 9000000>>]

\* Whether coefficient i (0-based) of the window is exactly 0.0:
\* Hann 0.5 * (1 - cos 0) at i = 0; the other shapes are non-zero everywhere.
CoeffIsZero(window, i) == window = "Hann" /\ i = 0

\* apply_window / SpectrumProducer::apply_window: element-wise multiplication.
ApplyWindow(td, window) ==
  [i \in 1..Len(td) |-> [td[i] EXCEPT !.win = Append(@, window)]]

\* The value class of element i (1-based) after its multiplications.
Windowed(e, i) ==
  LET zeroed == \E j \in 1..Len(e.win) : CoeffIsZero(e.win[j], i - 1)
  IN CASE e.x.k = "nan" -> "nan"
       [] e.x.k \in {"pinf", "ninf"} -> IF zeroed THEN "nan" ELSE "inf"
       [] zeroed -> "zero"
       [] e.x.k = "huge" -> "huge"
       [] e.x.k = "fin" /\ e.x.v = 0 -> "zero"
       [] OTHER -> "fin"

\* ------------------------------------------------------- forward transform
\* RealToComplex::process on a window, followed by |X| * scaling / gain
\* (spectrum.rs:565-575).  The result is the amplitude of every bin as a level
\* in thousandths of a dB (NInf: amplitude 0.0).  What the library computes
\* from a finite non-zero window is the oracle's spectrum mag; what is fixed
\* is: a zero window gives zeros, a NaN gives NaNs, and a window whose every
\* non-zero-weighted sample is huge overflows the sum in bin 0 (with only some
\* samples huge, the oracle's ovf says whether it does).
Amplitudes(td, mag, ovf) ==
  LET cls == {Windowed(td[i], i) : i \in 1..Len(td)}
  IN IF "nan" \in cls \/ "inf" \in cls THEN [b \in 1..SPECTRUM_BINS |-> NaN]
     ELSE IF cls = {"zero"} THEN [b \in 1..SPECTRUM_BINS |-> NInf]
     ELSE IF "huge" \in cls /\ (cls \subseteq {"huge", "zero"} \/ ovf)
       THEN [b \in 1..SPECTRUM_BINS |-> IF b = 1 THEN PInf ELSE mag[b]]
     ELSE mag

\* The input buffer after process(): untouched, or used as scratch space.
AfterTransform(td, scr) ==
  IF ~scr THEN td
  ELSE LET cls == {Windowed(td[i], i) : i \in 1..Len(td)}
       IN [i \in 1..Len(td) |->
             Raw(IF "nan" \in cls \/ "inf" \in cls THEN NaN
                 ELSE IF cls = {"zero"} THEN Fin(0)
                 ELSE IF "huge" \in cls THEN Huge ELSE Scratch)]

\* ------------------------------------------------- magnitude spectrum in dB
\* spectrum.rs:33   MIN_AMPLITUDE_THRESHOLD = 1e-8, as a level: -160 dB
MIN_AMPLITUDE_THRESHOLD == -160000
\* spectrum.rs:21   SPECTRUM_TILT_DB_PER_OCT = 4.5, in thousandths of a dB
SPECTRUM_TILT_DB_PER_OCT == 4500
\* spectrum.rs:39   TILT_REFERENCE_FREQ_HZ = 1000.0, in thousandths of a Hz
TILT_REFERENCE_FREQ_HZ == 1000000
\* spectrum.rs:42   MIN_FREQ_THRESHOLD = 0.001, in thousandths of a Hz
MIN_FREQ_THRESHOLD == 1

\* spectrum.rs:584  (bin_idx as f32 * sample_rate) / window_size as f32, in
\* thousandths of a Hz; bin_idx is 0-based, sample_rate in Hz.
BinFreq(bin_idx, sample_rate) ==
  (bin_idx * sample_rate * 1000) \div SPECTRUM_WINDOW_SIZE_USIZE

RECURSIVE FloorLog2(_)
FloorLog2(n) == IF n < 2 THEN 0 ELSE 1 + FloorLog2(n \div 2)

\* 1000 * log2(n) for an integer n >= 1: the exponent, and the mantissa
\* interpolated linearly (monotone in n, exact at the powers of two).
Log2Milli(n) ==
  LET e == FloorLog2(n)
  IN 1000 * e + (IF e >= 10 THEN (1000 * ((n - 2 ^ e) \div 2 ^ (e - 10))) \div 1024
                 ELSE (1000 * (n - 2 ^ e)) \div (2 ^ e))

\* apply_tilt_compensation
ApplyTiltCompensation(magnitude_db, freq, tilt_db_per_oct) ==
  IF freq < MIN_FREQ_THRESHOLD THEN magnitude_db
  ELSE LET octaves_from_reference == Log2Milli(freq) - Log2Milli(TILT_REFERENCE_FREQ_HZ)
       IN FAdd(magnitude_db, Fin((tilt_db_per_oct * octaves_from_reference) \div 1000))

\* spectrum.rs:578-596 for one bin, given its amplitude level.
BinDb(bin_idx, amplitude, sample_rate) ==
  LET db_value == IF FGt(amplitude, Fin(MIN_AMPLITUDE_THRESHOLD)) THEN amplitude ELSE FloorDb
      tilted_db == ApplyTiltCompensation(db_value, BinFreq(bin_idx, sample_rate),
                                         SPECTRUM_TILT_DB_PER_OCT)
  IN FMax(tilted_db, FloorDb)

\* compute_magnitude_spectrum (free function), from the bins' amplitudes.
ComputeMagnitudeSpectrum(amplitudes, sample_rate) ==
  [b \in 1..SPECTRUM_BINS |-> BinDb(b - 1, amplitudes[b], sample_rate)]

\* AdaptiveWindowStrategy::blend_frequency_spectrums
BlendFrequencySpectrums(low_spectrum, mid_spectrum, high_spectrum, sample_rate) ==
  LET s == WindowStrategy
      lm0 == s.low_mid_crossfade[1]
      lm1 == s.low_mid_crossfade[2]
      mh0 == s.mid_high_crossfade[1]
      mh1 == s.mid_high_crossfade[2]
  IN [b \in 1..Len(low_spectrum) |->
       LET freq_hz == BinFreq(b - 1, sample_rate)
       IN IF freq_hz < lm0 THEN low_spectrum[b]
          ELSE IF freq_hz < lm1 THEN
            FAdd(FMulQ(low_spectrum[b], (lm1 - freq_hz) \div 1000, (lm1 - lm0) \div 1000),
                 FMulQ(mid_spectrum[b], (freq_hz - lm0) \div 1000, (lm1 - lm0) \div 1000))
          ELSE IF freq_hz < mh0 THEN mid_spectrum[b]
          ELSE IF freq_hz < mh1 THEN
            FAdd(FMulQ(mid_spectrum[b], (mh1 - freq_hz) \div 1000, (mh1 - mh0) \div 1000),
                 FMulQ(high_spectrum[b], (freq_hz - mh0) \div 1000, (mh1 - mh0) \div 1000))
          ELSE high_spectrum[b]]

\* ---------------------------------------------------------------- smoothing
\* SpectrumSpeed::time_constants_ms
TimeConstantsMs(speed) ==
  CASE speed = "VerySlow" -> <<100, 2000>>
    [] speed = "Slow" -> <<50, 1000>>
    [] speed = "Medium" -> <<20, 400>>
    [] speed = "Fast" -> <<5, 100>>
    [] speed = "VeryFast" -> <<1, 20>>

\* SpectrumProducerBuilder::default: speed Medium
Speed == "Medium"

\* calculate_smoothing_alpha at fft_frame_rate = sample_rate / (window * 0.5),
\* as a fraction <<num, den>>.  With x = update_period / tau the code returns
\* 1 - exp(-x); the fraction is x / (1 + x), which like it lies in (0, 1) and
\* grows with x.
CalculateSmoothingAlpha(time_ms, sample_rate) ==
  IF time_ms <= 0 THEN <<1, 1>>
  ELSE <<SPECTRUM_WINDOW_SIZE_USIZE,
         SPECTRUM_WINDOW_SIZE_USIZE + (2 * sample_rate * time_ms) \div 1000>>

\* spectrum.rs:687-699
TemporallySmoothed(current_spectrum, previous_spectrum, speed, sample_rate) ==
  LET tc == TimeConstantsMs(speed)
      attack_alpha == CalculateSmoothingAlpha(tc[1], sample_rate)
      release_alpha == CalculateSmoothingAlpha(tc[2], sample_rate)
  IN [b \in 1..Len(current_spectrum) |->
       LET current_db == current_spectrum[b]
           previous_db == previous_spectrum[b]
       IN IF FGt(current_db, previous_db)
          THEN FAdd(previous_db, FMulQ(FSub(current_db, previous_db),
                                       attack_alpha[1], attack_alpha[2]))
          ELSE FAdd(previous_db, FMulQ(FSub(current_db, previous_db),
                                       release_alpha[1], release_alpha[2]))]

\* spectrum.rs:49-51, in thousandths of a Hz
SMOOTHING_HIGH_FREQ_HZ == 5000000
SMOOTHING_MID_HIGH_FREQ_HZ == 2000000
SMOOTHING_MID_FREQ_HZ == 800000
\* spectrum.rs:54-55
HIGH_FREQ_KERNEL_SIZE == 9
MID_HIGH_FREQ_KERNEL_SIZE == 7
\* spectrum.rs:58-59
GAUSSIAN_SIGMA_STRONG == 1
GAUSSIAN_SIGMA_MODERATE == 2

Abs(x) == IF x < 0 THEN 0 - x ELSE x
Min(a, b) == IF a < b THEN a ELSE b
Max(a, b) == IF a > b THEN a ELSE b

\* exp(-distance^2 / sigma) in thousandths, sigma 1.0 (strong) or 2.0.
GaussianWeight(distance, sigma) ==
  IF sigma = GAUSSIAN_SIGMA_STRONG
  THEN CASE distance = 0 -> 1000 [] distance = 1 -> 368
         [] distance = 2 -> 18 [] OTHER -> 0
  ELSE CASE distance = 0 -> 1000 [] distance = 1 -> 607
         [] distance = 2 -> 135 [] distance = 3 -> 11 [] OTHER -> 0

\* spectrum[j] * weight for a weight in thousandths; the weight it stands for
\* is positive however small, so an infinity stays one.
Weighted(a, weight) == IF a.k = "fin" THEN Fin(a.v * weight) ELSE a

\* spectrum.rs:728-741 / 749-761: the weighted mean over start..end (0-based).
RECURSIVE WeightedSum(_, _, _, _, _)
WeightedSum(spectrum, i, j, end_idx, sigma) ==
  IF j > end_idx THEN Fin(0)
  ELSE FAdd(Weighted(spectrum[j + 1], GaussianWeight(Abs(j - i), sigma)),
            WeightedSum(spectrum, i, j + 1, end_idx, sigma))
RECURSIVE WeightSum(_, _, _, _)
WeightSum(i, j, end_idx, sigma) ==
  IF j > end_idx THEN 0
  ELSE GaussianWeight(Abs(j - i), sigma) + WeightSum(i, j + 1, end_idx, sigma)

GaussianSmoothed(spectrum, i, kernel, sigma) ==
  LET kernel_size == Min(kernel, Len(spectrum) - 1)
      half_kernel == kernel_size \div 2
      start_idx == Max(i - half_kernel, 0)
      end_idx == Min(i + half_kernel, Len(spectrum) - 1)
      weight_sum == WeightSum(i, start_idx, end_idx, sigma)
  IN IF weight_sum > 0
     THEN FMulQ(WeightedSum(spectrum, i, start_idx, end_idx, sigma), 1, weight_sum)
     ELSE spectrum[i + 1]

\* spectrum.rs:764-774 with prev read from the bin the loop has just written.
FivePointInPlace(spectrum, i) ==
  LET Mean(s, k) ==
        FAdd(FAdd(FAdd(FAdd(FMulQ(s[Max(k - 2, 0) + 1], 1, 10), FMulQ(s[k], 2, 10)),
                       FMulQ(s[k + 1], 4, 10)), FMulQ(s[k + 2], 2, 10)),
             FMulQ(IF k + 2 < Len(s) THEN s[k + 3] ELSE s[k + 1], 1, 10))
  IN Mean(IF i >= 2 THEN [spectrum EXCEPT ![i] = Mean(spectrum, i - 1)] ELSE spectrum, i)

\* spectrum.rs:764-774, weights 0.1 / 0.2 / 0.4
FivePointSmoothed(spectrum, i) ==
  LET prev2 == spectrum[Max(i - 2, 0) + 1]
      prev == spectrum[i]
      curr == spectrum[i + 1]
      next == spectrum[i + 2]
      next2 == IF i + 2 < Len(spectrum) THEN spectrum[i + 3] ELSE spectrum[i + 1]
  IN FAdd(FAdd(FAdd(FAdd(FMulQ(prev2, 1, 10), FMulQ(prev, 2, 10)),
                    FMulQ(curr, 4, 10)), FMulQ(next, 2, 10)), FMulQ(next2, 1, 10))

\* apply_frequency_dependent_smoothing
ApplyFrequencyDependentSmoothing(spectrum, sample_rate) ==
  [b \in 1..Len(spectrum) |->
     LET i == b - 1
         freq == BinFreq(i, sample_rate)
     IN IF i < 1 \/ i >= Len(spectrum) - 1 THEN spectrum[b]
        ELSE IF freq > SMOOTHING_HIGH_FREQ_HZ
          THEN GaussianSmoothed(spectrum, i, HIGH_FREQ_KERNEL_SIZE, GAUSSIAN_SIGMA_STRONG)
        ELSE IF freq > SMOOTHING_MID_HIGH_FREQ_HZ
          THEN GaussianSmoothed(spectrum, i, MID_HIGH_FREQ_KERNEL_SIZE, GAUSSIAN_SIGMA_MODERATE)
        ELSE IF freq > SMOOTHING_MID_FREQ_HZ THEN FivePointSmoothed(spectrum, i)
        ELSE spectrum[b]]

\* apply_spectrum_smoothing (free function): the frame that becomes both
\* spectrum_result and previous_spectrum.
ApplySpectrumSmoothing(current_spectrum, previous_spectrum, speed, sample_rate) ==
  ApplyFrequencyDependentSmoothing(
    TemporallySmoothed(current_spectrum, previous_spectrum, speed, sample_rate),
    sample_rate)

\* The frame kept for the next pass, were it the temporally smoothed one.
UpdatedPreviousTemporal(current_spectrum, previous_spectrum, speed, sample_rate) ==
  TemporallySmoothed(current_spectrum, previous_spectrum, speed, sample_rate)

\* spectrum.rs:704-705: the second frame apply_spectrum_smoothing returns, a
\* clone of the first, which the method copies into previous_spectrum (477).
UpdatedPrevious(current_spectrum, previous_spectrum, speed, sample_rate) ==
  ApplySpectrumSmoothing(current_spectrum, previous_spectrum, speed, sample_rate)

\* -------------------------------------------------------------------- meter
\* nih_plug util::MINUS_INFINITY_DB = -100.0, in thousandths of a dB
MINUS_INFINITY_DB == -100000
\* meter.rs:7-8: METER_ATTACK = 0.3 and METER_RELEASE = 0.001 as fractions
METER_ATTACK == <<3, 10>>
METER_RELEASE == <<1, 1000>>
\* meter.rs:11
PEAK_HOLD_CYCLES == 60
\* meter.rs:14, in thousandths of a dB
SILENCE_THRESHOLD_DB == -50000

\* util::gain_to_db(sample.abs()) = 20 * log10(max(|sample|, 1e-5)); a finite
\* sample Fin(v) is v thousandths of full scale, so every non-zero one is above
\* 1e-5; f32::max drops a NaN.
GainToDb(sample) ==
  CASE sample.k = "nan" -> Fin(MINUS_INFINITY_DB)
    [] sample.k \in {"pinf", "ninf"} -> PInf
    [] sample.k = "huge" -> Fin(700000)
    [] OTHER -> IF sample.v = 0 THEN Fin(MINUS_INFINITY_DB)
                ELSE Fin((6021 * (Log2Milli(Abs(sample.v)) - Log2Milli(1000))) \div 1000)

\* meter.rs:251-256 / 262-267: the running peak over one channel.
RECURSIVE ChannelPeak(_, _, _)
ChannelPeak(channel, i, peak) ==
  IF i > Len(channel) THEN peak
  ELSE LET sample_db == GainToDb(channel[i])
       IN ChannelPeak(channel, i + 1, IF FGt(sample_db, peak) THEN sample_db ELSE peak)

\* meter.rs:261  let right_channel = &channel_slices[1]
RightChannelIsLeft(buffer) == buffer[1]
RightChannel(buffer) == buffer[2]

\* calculate_peak_levels
CalculatePeakLevels(buffer) ==
  IF Channels(buffer) = 0 THEN <<Fin(MINUS_INFINITY_DB), Fin(MINUS_INFINITY_DB)>>
  ELSE LET left_peak == ChannelPeak(buffer[1], 1, Fin(MINUS_INFINITY_DB))
       IN <<left_peak,
            IF Channels(buffer) >= 2
            THEN ChannelPeak(RightChannel(buffer), 1, Fin(MINUS_INFINITY_DB))
            ELSE left_peak>>

\* meter.rs:122-130 for one channel
SmoothedLevel(db, smoothed) ==
  IF FGt(db, smoothed)
  THEN FAdd(FMulQ(db, METER_ATTACK[1], METER_ATTACK[2]),
            FMulQ(smoothed, METER_ATTACK[2] - METER_ATTACK[1], METER_ATTACK[2]))
  ELSE FAdd(FMulQ(db, METER_RELEASE[1], METER_RELEASE[2]),
            FMulQ(smoothed, METER_RELEASE[2] - METER_RELEASE[1], METER_RELEASE[2]))

\* MeterConsumer::update_smoothing
UpdateSmoothing(st, l, r) ==
  [st EXCEPT !.smoothed_left = SmoothedLevel(l, @),
             !.smoothed_right = SmoothedLevel(r, @)]

\* meter.rs:171  peak_hold_counter >= PEAK_HOLD_CYCLES
HoldExpiredLate(counter) == counter > PEAK_HOLD_CYCLES
HoldExpired(counter) == counter >= PEAK_HOLD_CYCLES

\* MeterConsumer::update_peak_hold
UpdatePeakHold(st, l, r) ==
  LET new_left == FGt(l, st.peak_hold_left)
      hold_left == IF new_left THEN l ELSE st.peak_hold_left
      new_right == FGt(r, st.peak_hold_right)
      hold_right == IF new_right THEN r ELSE st.peak_hold_right
      current_peak == FMax(hold_left, hold_right)
      new_value == FGt(current_peak, st.peak_hold_value)
      hold_value == IF new_value THEN current_peak ELSE st.peak_hold_value
      counter == st.peak_hold_counter + 1
  IN IF new_left \/ new_right \/ new_value
     THEN [st EXCEPT !.peak_hold_left = hold_left, !.peak_hold_right = hold_right,
                     !.peak_hold_value = hold_value, !.peak_hold_counter = 0]
     ELSE IF HoldExpired(counter)
     THEN [st EXCEPT !.peak_hold_left = Fin(MINUS_INFINITY_DB),
                     !.peak_hold_right = Fin(MINUS_INFINITY_DB),
                     !.peak_hold_value = Fin(MINUS_INFINITY_DB),
                     !.peak_hold_counter = 0]
     ELSE [st EXCEPT !.peak_hold_counter = counter]

\* meter.rs:194-199 for one channel: 0.5 dB per frame, snapping below -80 dB.
Decayed(smoothed) ==
  IF FGt(smoothed, Fin(MINUS_INFINITY_DB))
  THEN LET d == FSub(smoothed, Fin(500))
       IN IF FLt(d, Fin(-80000)) THEN Fin(MINUS_INFINITY_DB) ELSE d
  ELSE smoothed

\* meter.rs:188  silence_counter > 30
DebounceOverEarly(counter) == counter >= 30
DebounceOver(counter) == counter > 30

\* MeterConsumer::update_silence_detection
UpdateSilenceDetection(st) ==
  LET max_level == FMax(st.smoothed_left, st.smoothed_right)
      counter == st.silence_counter + 1
  IN IF FLt(max_level, Fin(SILENCE_THRESHOLD_DB))
     THEN IF DebounceOver(counter)
          THEN [st EXCEPT !.silence_counter = counter,
                          !.smoothed_left = Decayed(@),
                          !.smoothed_right = Decayed(@)]
          ELSE [st EXCEPT !.silence_counter = counter]
     ELSE [st EXCEPT !.silence_counter = 0]

\* create_meter_channels with MeterConsumer::new
CreateMeterChannels ==
  [peak_left |-> Fin(MINUS_INFINITY_DB),
   peak_right |-> Fin(MINUS_INFINITY_DB),
   state |-> [smoothed_left |-> Fin(MINUS_INFINITY_DB),
              smoothed_right |-> Fin(MINUS_INFINITY_DB),
              peak_hold_left |-> Fin(MINUS_INFINITY_DB),
              peak_hold_right |-> Fin(MINUS_INFINITY_DB),
              peak_hold_value |-> Fin(MINUS_INFINITY_DB),
              peak_hold_counter |-> 0,
              silence_counter |-> 0]]

\* ------------------------------------------------------------------- state
VARIABLES
  \* triple_buffer shared state and the two ends' private indices
  buffers, back_info, input_idx, output_idx,
  \* audio thread: position, copy cursor and the value being written
  apc, wi, wframe,
  \* SpectrumProducer fields
  ring_buffer, ring_buffer_pos, samples_since_fft, time_domain_buffer,
  spectrum_result, previous_spectrum, fft_failure_count,
  \* UI side: the Mutex around the Output, each clone's position, copy cursor,
  \* frame being copied out, and the value the latest read() returned
  mutex, rpc, ri, rframe, result,
  \* history: frames handed to write(), the last one published, whether the
  \* audio thread was idle throughout the current read, the previous read's
  \* frame and whether anything was published since that read / this read
  \* began, and the numbers of calls made
  written, lastCompleted, quiet, prevFrame, h0, h1, reads, silences, calls,
  \* history of the producer: the number of mono samples pushed and the last
  \* SPECTRUM_WINDOW_SIZE_USIZE elements of (zeros followed by the pushed
  \* samples), the number of passes and what the latest call did, with the
  \* number of heap allocations it made
  total, recent, passes, last,
  \* steps taken so far by the audio thread's and each clone's call in progress
  asteps, rsteps,
  \* MeterProducer's two atomics and update_peaks' right_peak still to store
  peak_left, peak_right, right_peak,
  \* MeterConsumer::update: position, the two loaded levels, the MeterState
  mpc, left_db, right_db, state,
  \* history: the pairs stored by update_peaks, and the numbers of calls
  stored, peaks, updates,
  \* SpectrumProducerBuilder: whether build() has returned or a call has
  \* panicked, the window_size field, the size last passed to window_size(),
  \* and whether the build has debug assertions
  phase, window_size, requested, debug_assertions,
  \* history of MeterConsumer::update: the number of updates that loaded a
  \* level above the floor, the greater level of the latest such pair, and the
  \* number of all-floor updates since (counted up to PEAK_HOLD_CYCLES + 1)
  highs, high, since,
  \* the number of updates in a row, up to the latest, that found the greater
  \* smoothed level below SILENCE_THRESHOLD_DB (counted up to MaxSilence), and
  \* whether the latest update's silence detection changed a smoothed level
  below, decayed,
  \* history of SpectrumProducer::apply_spectrum_smoothing: the raw frames it
  \* was given and the frames it left in spectrum_result, pass by pass
  raws, outs,
  \* history of apply_frequency_dependent_smoothing: the frame and the sample
  \* rate of the latest call, and the frame it returned
  given, returned,
  \* the legacy host callback (lib.rs, audio_engine.rs) and the spectrum
  \* canvas (ui/spectrum.rs): where each thread stands, the state of the
  \* spectrum_data RwLock, the number of the frame it holds, the number of
  \* the frame last drawn, and the callbacks completed
  hpc, dpc, spectrum_data_lock, spectrum_data, drawn, callbacks,
  \* the editor: where it stands in a frame, the frames rendered, and the
  \* calls of MeterConsumer::update made for them
  epc, frames, cycles,
  \* the number of the write whose frame each slot of the triple buffer
  \* holds, the number behind the frame the latest read returned, and the
  \* number behind the frame the read before it returned
  stamp, got, before,
  \* history of MeterProducer::update_peaks: the buffer of the latest call
  peaked

chanVars == <<buffers, back_info, input_idx, output_idx>>
audioVars == <<apc, wi, wframe>>
prodVars == <<ring_buffer, ring_buffer_pos, samples_since_fft, time_domain_buffer,
              spectrum_result, previous_spectrum, fft_failure_count>>
uiVars == <<mutex, rpc, ri, rframe, result>>
histVars == <<written, lastCompleted, quiet, prevFrame, h0, h1, reads, silences, calls>>
prodHist == <<total, recent, passes, last>>
meterVars == <<peak_left, peak_right, right_peak, mpc, left_db, right_db, state,
               stored, peaks, updates>>
builderVars == <<phase, window_size, requested, debug_assertions>>
levelHist == <<highs, high, since, below, decayed>>
extraVars == <<hpc, dpc, spectrum_data_lock, spectrum_data, drawn, callbacks>>
frameVars == <<epc, frames, cycles>>
sideVars == <<builderVars, levelHist, raws, outs, given, returned, peaked, extraVars, frameVars, stamp, got, before>>
vars == <<chanVars, audioVars, prodVars, uiVars, histVars, prodHist, asteps, rsteps,
          meterVars, sideVars>>

\* The last n elements of a sequence of at least n elements.
LastN(seq, n) == [i \in 1..n |-> seq[Len(seq) - n + i]]

\* ---------------------------------------------------------- analysis pass
\* compute_spectrum_with_window: window the saved samples, transform (the
\* result of process() is dropped: on Err freq_buffer keeps its zeros), convert.
ComputeSpectrumWithWindow(audio_samples, window, ok, mag, ovf, sample_rate) ==
  LET windowed == ApplyWindow(audio_samples, window)
      freq_buffer == IF ok THEN Amplitudes(windowed, mag, ovf)
                     ELSE [b \in 1..SPECTRUM_BINS |-> NInf]
  IN ComputeMagnitudeSpectrum(freq_buffer, sample_rate)

\* compute_adaptive_magnitude_spectrum on the buffer it finds.
ComputeAdaptiveMagnitudeSpectrum(original_buffer, lib, sample_rate) ==
  BlendFrequencySpectrums(
    ComputeSpectrumWithWindow(original_buffer, WindowStrategy.low_freq_window,
                              lib.okLow, lib.low, lib.ovf, sample_rate),
    ComputeSpectrumWithWindow(original_buffer, WindowStrategy.mid_freq_window,
                              lib.okMid, lib.mid, lib.ovf, sample_rate),
    ComputeSpectrumWithWindow(original_buffer, WindowStrategy.high_freq_window,
                              lib.okHigh, lib.high, lib.ovf, sample_rate),
    sample_rate)

\* Heap allocations of compute_adaptive_magnitude_spectrum: the clone of
\* time_domain_buffer (spectrum.rs:431), the three clones of window
\* coefficients (434, 436, 438), per window the Vec of apply_window (410,
\* 514), the vec! of freq_buffer (414) and the Vec collected by
\* compute_magnitude_spectrum (598), and the Vec of blend_frequency_spectrums
\* (window_functions.rs:228).
ComputeAdaptiveAllocations == 1 + 3 + 3 * (1 + 1 + 1) + 1
\* Heap allocations of apply_spectrum_smoothing: the collected Vec (699), the
\* to_vec of apply_frequency_dependent_smoothing (714) and the two clones
\* (704, 705).
SmoothingAllocations == 1 + 1 + 1 + 1

\* fetch_add(1) on an AtomicU32; the runs stay far below the wrap at 2^32.
FetchAdd1(c) == c + 1

\* The transforms of a pass that return Err under the oracle lib.
FailedTransforms(lib) ==
  {t \in {"first", "low", "mid", "high"} :
     \/ t = "first" /\ ~lib.ok0
     \/ lib.ok0 /\ t = "low" /\ ~lib.okLow
     \/ lib.ok0 /\ t = "mid" /\ ~lib.okMid
     \/ lib.ok0 /\ t = "high" /\ ~lib.okHigh}

\* spectrum.rs:306-332: the body of the if in process(), from the state st
\* left by add_samples_to_ring_buffer.  publish says whether write() is reached.
AnalysisPass(st, prev, count, lib, sample_rate) ==
  LET snapshot == CopyFromRingBuffer(st.ring, st.pos)
      windowed == ApplyWindow([i \in 1..Len(snapshot) |-> Raw(snapshot[i])],
                              WindowStrategy.mid_freq_window)
  IN IF ~lib.ok0
     THEN [publish |-> FALSE, td |-> windowed,
           result |-> spectrum_result, previous |-> prev, count |-> FetchAdd1(count)]
     ELSE LET original_buffer == AfterTransform(windowed, lib.scr)
              magnitude_spectrum ==
                ComputeAdaptiveMagnitudeSpectrum(original_buffer, lib, sample_rate)
              smoothed == ApplySpectrumSmoothing(magnitude_spectrum, prev, Speed, sample_rate)
          IN [publish |-> TRUE, td |-> original_buffer,
              result |-> smoothed,
              previous |-> UpdatedPrevious(magnitude_spectrum, prev, Speed, sample_rate),
              count |-> count]

\* ------------------------------------------------------------ audio thread
\* The state add_samples_to_ring_buffer leaves, and the pass that follows it.
Pushed(buffer) ==
  AddSamplesToRingBuffer(
    [ring |-> ring_buffer, pos |-> ring_buffer_pos, ssf |-> samples_since_fft], buffer)
\* spectrum.rs:304-305 with the hop having to be exceeded.
TriggeredLate(buffer) == Pushed(buffer).ssf > HopSize
\* spectrum.rs:304-305
Triggered(buffer) == Pushed(buffer).ssf >= HopSize
PassOf(buffer, sample_rate, lib) ==
  AnalysisPass(Pushed(buffer), previous_spectrum, fft_failure_count, lib, sample_rate)

\* SpectrumProducer::process up to the call of write(), on the producer's
\* fields and the audio thread's position; the copy into the input slot and
\* the publish follow as WriteCopy and WritePublish.
ProcessFields(buffer, sample_rate, lib) ==
  /\ apc = "idle"
  /\ LET st == Pushed(buffer)
         trigger == Triggered(buffer)
         pass == PassOf(buffer, sample_rate, lib)
     IN /\ ring_buffer' = st.ring
        /\ ring_buffer_pos' = st.pos
        /\ samples_since_fft' = IF trigger THEN 0 ELSE st.ssf
        /\ time_domain_buffer' = IF trigger THEN pass.td ELSE time_domain_buffer
        /\ spectrum_result' = IF trigger THEN pass.result ELSE spectrum_result
        /\ previous_spectrum' = IF trigger THEN pass.previous ELSE previous_spectrum
        /\ fft_failure_count' = IF trigger THEN pass.count ELSE fft_failure_count
        /\ IF trigger /\ pass.publish
           THEN /\ apc' = "copy"
                /\ wi' = 1
                /\ wframe' = pass.result
           ELSE UNCHANGED <<apc, wi, wframe>>
  /\ asteps' = IF apc' = "idle" THEN 0 ELSE 1
  /\ UNCHANGED <<meterVars, rsteps, chanVars, uiVars>>

\* SpectrumProducer::process with the history of the call.
Process(buffer, sample_rate, lib) ==
  /\ ProcessFields(buffer, sample_rate, lib)
  /\ LET trigger == Triggered(buffer)
         pass == PassOf(buffer, sample_rate, lib)
         mono == IF Channels(buffer) = 0 THEN <<>>
                 ELSE [i \in 1..Samples(buffer) |-> MonoSample(buffer, i)]
     IN /\ written' = IF trigger /\ pass.publish THEN written \cup {pass.result} ELSE written
        /\ total' = total + Len(mono)
        /\ recent' = LastN(recent \o mono, SPECTRUM_WINDOW_SIZE_USIZE)
        /\ passes' = IF trigger THEN passes + 1 ELSE passes
        /\ last' = [pass |-> trigger,
                    publish |-> trigger /\ pass.publish,
                    failed |-> IF trigger THEN FailedTransforms(lib) ELSE {},
                    count_before |-> fft_failure_count,
                    previous_before |-> previous_spectrum,
                    completed_before |-> lastCompleted,
                    ssf_before |-> samples_since_fft,
                    scr |-> trigger /\ lib.ok0 /\ lib.scr,
                    allocs |-> IF trigger /\ lib.ok0
                               THEN ComputeAdaptiveAllocations + SmoothingAllocations
                               ELSE 0]
  /\ calls' = calls + 1
  /\ quiet' = (quiet /\ apc' = "idle")
  /\ UNCHANGED <<sideVars, lastCompleted, prevFrame, h0, h1, reads, silences>>

\* SpectrumProducer::process on a hop of zero samples, in a run of silent
\* input without end; the call counters and the set of frames written, which
\* only the reader's claims consult, stand still.
ProcessZeros(sample_rate, lib) ==
  /\ ProcessFields(<<[i \in 1..HopSize |-> Fin(0)]>>, sample_rate, lib)
  /\ quiet' = (quiet /\ apc' = "idle")
  /\ UNCHANGED <<sideVars, written, lastCompleted, prevFrame, h0, h1, reads, silences, calls, prodHist>>

\* spectrum.rs:284  let silence = [SPECTRUM_FLOOR_DB; SPECTRUM_BINS]
StaleResult == spectrum_result
silence == [i \in 1..SPECTRUM_BINS |-> Fin(SPECTRUM_FLOOR_DB)]

\* write_silence, were it to start the smoothing afresh.
WriteSilenceResets ==
  /\ apc = "idle"
  /\ apc' = "copy"
  /\ wi' = 1
  /\ wframe' = silence
  /\ previous_spectrum' = silence
  /\ written' = written \cup {silence}
  /\ silences' = silences + 1
  /\ last' = [pass |-> FALSE, publish |-> TRUE, failed |-> {},
              count_before |-> fft_failure_count,
              previous_before |-> previous_spectrum,
              completed_before |-> lastCompleted,
              ssf_before |-> samples_since_fft, scr |-> FALSE]
  /\ quiet' = FALSE
  /\ asteps' = 1
  /\ UNCHANGED <<sideVars, meterVars, rsteps, chanVars, ring_buffer, ring_buffer_pos, samples_since_fft,
                 time_domain_buffer, spectrum_result, fft_failure_count, uiVars, lastCompleted, prevFrame, h0, h1, reads,
                 calls, total, recent, passes>>

\* SpectrumProducer::write_silence up to the call of write().
WriteSilence ==
  /\ apc = "idle"
  /\ apc' = "copy"
  /\ wi' = 1
  /\ wframe' = silence
  /\ written' = written \cup {silence}
  /\ silences' = silences + 1
  /\ last' = [pass |-> FALSE, publish |-> TRUE, failed |-> {},
              count_before |-> fft_failure_count,
              previous_before |-> previous_spectrum,
              completed_before |-> lastCompleted,
              ssf_before |-> samples_since_fft, scr |-> FALSE]
  /\ quiet' = FALSE
  /\ asteps' = 1
  /\ UNCHANGED <<sideVars, meterVars, rsteps, chanVars, prodVars, uiVars, lastCompleted, prevFrame, h0, h1, reads,
                 calls, total, recent, passes>>

\* Input::write, *self.input_buffer_mut() = value: one element per step.
WriteCopy ==
  /\ apc = "copy"
  /\ buffers' = [buffers EXCEPT ![input_idx][wi] = wframe[wi]]
  /\ IF wi = SPECTRUM_BINS THEN apc' = "publish" /\ wi' = 1
     ELSE apc' = "copy" /\ wi' = wi + 1
  /\ quiet' = FALSE
  /\ asteps' = asteps + 1
  /\ UNCHANGED <<sideVars, meterVars, rsteps, back_info, input_idx, output_idx, wframe, prodVars, uiVars, written,
                 lastCompleted, prevFrame, h0, h1, reads, silences, calls, prodHist>>

\* Input::write, self.publish()
WritePublish ==
  /\ apc = "publish"
  /\ LET p == Publish(back_info, input_idx)
     IN back_info' = p.back_info /\ input_idx' = p.input_idx
  /\ apc' = "idle"
  /\ lastCompleted' = wframe
  /\ quiet' = FALSE
  /\ h0' = FALSE
  /\ h1' = FALSE
  /\ asteps' = 0
  /\ stamp' = [stamp EXCEPT ![input_idx] = calls + silences]
  /\ UNCHANGED <<builderVars, levelHist, raws, outs, given, returned, peaked, extraVars, frameVars,
                 got, before, meterVars, rsteps, buffers, output_idx, wi, wframe, prodVars, uiVars, written, prevFrame,
                 reads, silences, calls, prodHist>>

\* ---------------------------------------------------------------- UI thread
Ok(frame) == [err |-> "none", frame |-> frame]
LockFailed == [err |-> "LockFailed", frame |-> SilenceFrame]

\* SpectrumConsumer::read_or_silence on the result of read()
ReadOrSilence(res) == IF res.err = "none" THEN res.frame ELSE SilenceFrame

\* SpectrumConsumer::read, self.output.try_lock() succeeding.
ReadLock(r) ==
  /\ rpc[r] = "idle"
  /\ TryLock(mutex) = "Ok"
  /\ mutex' = r
  /\ rpc' = [rpc EXCEPT ![r] = "update"]
  /\ rframe' = SilenceFrame
  /\ quiet' = (apc \notin {"copy", "publish"})
  /\ h0' = h1
  /\ h1' = TRUE
  /\ rsteps' = [rsteps EXCEPT ![r] = 1]
  /\ UNCHANGED <<sideVars, meterVars, asteps, chanVars, audioVars, prodVars, ri, result, written, lastCompleted,
                 prevFrame, reads, silences, calls, prodHist>>

\* SpectrumConsumer::read, try_lock() failing: Err(LockFailed).
ReadLockFailed(r) ==
  /\ rpc[r] = "idle"
  /\ TryLock(mutex) = "WouldBlock"
  /\ result' = LockFailed
  /\ reads' = reads + 1
  /\ rsteps' = [rsteps EXCEPT ![r] = 0]
  /\ UNCHANGED <<sideVars, meterVars, asteps, chanVars, audioVars, prodVars, mutex, rpc, ri, rframe, written,
                 lastCompleted, quiet, prevFrame, h0, h1, silences, calls, prodHist>>

\* Output::update: load the dirty bit.
ReadUpdate(r) ==
  /\ rpc[r] = "update"
  /\ rpc' = [rpc EXCEPT ![r] = IF Updated(back_info) THEN "swap" ELSE "copy"]
  /\ ri' = 1
  /\ rsteps' = [rsteps EXCEPT ![r] = @ + 1]
  /\ UNCHANGED <<sideVars, meterVars, asteps, chanVars, audioVars, prodVars, mutex, rframe, result, histVars, prodHist>>

\* Output::update: swap the back and output indices.
ReadSwap(r) ==
  /\ rpc[r] = "swap"
  /\ LET o == OutputSwap(back_info, output_idx)
     IN back_info' = o.back_info /\ output_idx' = o.output_idx
  /\ rpc' = [rpc EXCEPT ![r] = "copy"]
  /\ rsteps' = [rsteps EXCEPT ![r] = @ + 1]
  /\ UNCHANGED <<sideVars, meterVars, asteps, buffers, input_idx, audioVars, prodVars, mutex, ri, rframe, result,
                 histVars, prodHist>>

\* *output.read(): copy the output slot out, one element per step.
ReadCopy(r) ==
  /\ rpc[r] = "copy"
  /\ rframe' = [rframe EXCEPT ![ri] = buffers[output_idx][ri]]
  /\ IF ri = SPECTRUM_BINS THEN rpc' = [rpc EXCEPT ![r] = "unlock"] /\ ri' = 1
     ELSE rpc' = rpc /\ ri' = ri + 1
  /\ rsteps' = [rsteps EXCEPT ![r] = @ + 1]
  /\ UNCHANGED <<sideVars, meterVars, asteps, chanVars, audioVars, prodVars, mutex, result, histVars, prodHist>>

\* The guard is dropped and read() returns Ok(frame).
ReadReturn(r) ==
  /\ rpc[r] = "unlock"
  /\ mutex' = "free"
  /\ rpc' = [rpc EXCEPT ![r] = "idle"]
  /\ result' = Ok(rframe)
  /\ prevFrame' = Ok(rframe)
  /\ reads' = reads + 1
  /\ rsteps' = [rsteps EXCEPT ![r] = 0]
  /\ before' = got
  /\ got' = stamp[output_idx]
  /\ UNCHANGED <<builderVars, levelHist, raws, outs, given, returned, peaked, extraVars, frameVars,
                 stamp, meterVars, asteps, chanVars, audioVars, prodVars, ri, rframe, written, lastCompleted,
                 quiet, h0, h1, silences, calls, prodHist>>

\* -------------------------------------------------------------- meter relay
specVars == <<chanVars, prodVars, uiVars, histVars, prodHist, rsteps, wi, wframe>>

\* MeterProducer::update_peaks up to and including peak_left.store
UpdatePeaks(buffer) ==
  /\ apc = "idle"
  /\ LET p == CalculatePeakLevels(buffer)
     IN /\ peak_left' = p[1]
        /\ right_peak' = p[2]
        /\ stored' = stored \cup {p}
  /\ apc' = "store_right"
  /\ asteps' = 1
  /\ peaks' = peaks + 1
  /\ peaked' = buffer
  /\ UNCHANGED <<builderVars, levelHist, raws, outs, given, returned, extraVars, frameVars, stamp, got, before, specVars, peak_right, mpc, left_db,
                 right_db, state, updates>>

\* MeterProducer::update_peaks, peak_right.store
StoreRight ==
  /\ apc = "store_right"
  /\ peak_right' = right_peak
  /\ apc' = "idle"
  /\ asteps' = 0
  /\ UNCHANGED <<sideVars, specVars, peak_left, right_peak, mpc, left_db, right_db, state,
                 stored, peaks, updates>>

\* MeterConsumer::update, peak_left.load
MeterLoadLeft ==
  /\ mpc = "idle"
  /\ left_db' = peak_left
  /\ mpc' = "load_right"
  /\ UNCHANGED <<sideVars, specVars, apc, asteps, peak_left, peak_right, right_peak, right_db,
                 state, stored, peaks, updates>>

\* MeterConsumer::update, peak_right.load
MeterLoadRight ==
  /\ mpc = "load_right"
  /\ right_db' = peak_right
  /\ mpc' = "lock"
  /\ UNCHANGED <<sideVars, specVars, apc, asteps, peak_left, peak_right, right_peak, left_db,
                 state, stored, peaks, updates>>

\* MeterConsumer::update, the body under state.lock()
MeterApply ==
  /\ mpc = "lock"
  /\ state' = UpdateSilenceDetection(
                UpdatePeakHold(UpdateSmoothing(state, left_db, right_db), left_db, right_db))
  /\ mpc' = "idle"
  /\ updates' = updates + 1
  /\ UNCHANGED <<sideVars, specVars, apc, asteps, peak_left, peak_right, right_peak, left_db,
                 right_db, stored, peaks>>

\* MeterProducer::update_peaks, both stores, with the consumer between updates.
StorePeaks(buffer) ==
  /\ apc = "idle" /\ mpc = "idle"
  /\ LET p == CalculatePeakLevels(buffer)
     IN /\ peak_left' = p[1]
        /\ right_peak' = p[2]
        /\ peak_right' = p[2]
        /\ stored' = stored \cup {p}
  /\ peaked' = buffer
  /\ UNCHANGED <<builderVars, levelHist, raws, outs, given, returned, extraVars, frameVars, stamp, got, before, specVars, apc, asteps, mpc, left_db,
                 right_db, state, peaks, updates>>

\* Whether a loaded pair is the floor on both channels.
IsFloorPair(l, r) == l = Fin(MINUS_INFINITY_DB) /\ r = Fin(MINUS_INFINITY_DB)

\* meter.rs:185-188: silence_counter is compared with 30 and with nothing
\* else, so a count above the bound is kept at the bound.
CountedTo(bound, st) == [st EXCEPT !.silence_counter = Min(@, bound)]

\* MeterConsumer::update, both loads and the body under state.lock(), with
\* the audio thread between callbacks; at most max_highs updates load a level
\* above the floor.
MeterConsumerUpdate(max_highs) ==
  /\ apc = "idle" /\ mpc = "idle"
  /\ ~IsFloorPair(peak_left, peak_right) => highs < max_highs
  /\ left_db' = peak_left
  /\ right_db' = peak_right
  /\ \E smoothed \in {UpdateSmoothing(state, peak_left, peak_right)} :
       \E held \in {UpdatePeakHold(smoothed, peak_left, peak_right)} :
         \E detected \in {UpdateSilenceDetection(held)} :
           /\ state' = CountedTo(MaxSilence, detected)
           /\ below' = IF FLt(FMax(held.smoothed_left, held.smoothed_right),
                              Fin(SILENCE_THRESHOLD_DB))
                       THEN Min(below + 1, MaxSilence) ELSE 0
           /\ decayed' = (<<detected.smoothed_left, detected.smoothed_right>>
                           # <<held.smoothed_left, held.smoothed_right>>)
  /\ IF IsFloorPair(peak_left, peak_right)
     THEN /\ since' = Min(since + 1, PEAK_HOLD_CYCLES + 1)
          /\ UNCHANGED <<highs, high>>
     ELSE /\ since' = 0
          /\ highs' = highs + 1
          /\ high' = FMax(peak_left, peak_right)
  /\ UNCHANGED <<builderVars, raws, outs, given, returned, extraVars, stamp, got, before, peaked,
                 specVars, apc, asteps, mpc, peak_left, peak_right,
                 right_peak, stored, peaks, updates>>

\* MeterConsumer::update called outside a frame of the editor.
Update(max_highs) == MeterConsumerUpdate(max_highs) /\ UNCHANGED frameVars

\* editor.rs:232-234: view, run for every Tick of on_frame, updates the meter
\* before it builds the widgets.
EditorView(max_frames) ==
  /\ epc = "idle"
  /\ frames < max_frames
  /\ MeterConsumerUpdate(2 * max_frames)
  /\ epc' = "viewed"
  /\ cycles' = cycles + 1
  /\ UNCHANGED frames

\* ui/meter_display.rs:62-68: draw_level_bars, run by the canvas of the view
\* just built, updates the meter before it reads the smoothed levels; the
\* frame is rendered.
DrawLevelBars(max_frames) ==
  /\ epc = "viewed"
  /\ MeterConsumerUpdate(2 * max_frames)
  /\ epc' = "idle"
  /\ cycles' = cycles + 1
  /\ frames' = frames + 1

\* SpectrumProducer::apply_spectrum_smoothing on a raw frame left in
\* spectrum_result by compute_magnitude_spectrum.
Smooth(raw, sample_rate) ==
  /\ apc = "idle"
  /\ Len(raws) < MaxFed
  /\ \E smoothed \in {ApplySpectrumSmoothing(raw, previous_spectrum, Speed, sample_rate)} :
       /\ spectrum_result' = smoothed
       /\ previous_spectrum' = UpdatedPrevious(raw, previous_spectrum, Speed, sample_rate)
       /\ outs' = Append(outs, smoothed)
  /\ raws' = Append(raws, raw)
  /\ UNCHANGED <<builderVars, levelHist, peaked, given, returned, extraVars, frameVars, stamp, got, before, meterVars, chanVars, audioVars, uiVars, histVars,
                 prodHist, asteps, rsteps, ring_buffer, ring_buffer_pos, samples_since_fft,
                 time_domain_buffer, fft_failure_count>>

\* apply_frequency_dependent_smoothing on a frame of any length.
FrequencySmooth(spectrum, sample_rate) ==
  /\ given' = <<spectrum, sample_rate>>
  /\ returned' = ApplyFrequencyDependentSmoothing(spectrum, sample_rate)
  /\ UNCHANGED <<builderVars, levelHist, raws, outs, peaked, extraVars, frameVars, stamp, got, before, meterVars, chanVars,
                 audioVars, prodVars, uiVars, histVars, prodHist, asteps, rsteps>>

\* ------------------------------------------------ legacy host callback
\* What the host and canvas steps leave alone.
analyserVars == <<frameVars, stamp, got, before, builderVars, levelHist, raws, outs, given, returned, peaked, meterVars, chanVars,
                  audioVars, prodVars, uiVars, histVars, prodHist, asteps, rsteps>>

\* lib.rs:158-166 and audio_engine.rs:63-128: process locks the engine, mixes
\* the block to mono, writes it to the sample buffer, transforms the latest
\* window and arrives at spectrum_data.write().
HostProcess(max_callbacks) ==
  /\ hpc = "idle"
  /\ callbacks < max_callbacks
  /\ hpc' = "write"
  /\ UNCHANGED <<dpc, spectrum_data_lock, spectrum_data, drawn, callbacks, analyserVars>>

\* audio_engine.rs:132: RwLock::write returns once no guard is out.
HostWriteAcquire ==
  /\ hpc = "write"
  /\ spectrum_data_lock = "free"
  /\ spectrum_data_lock' = "written"
  /\ hpc' = "store"
  /\ UNCHANGED <<dpc, spectrum_data, drawn, callbacks, analyserVars>>

\* audio_engine.rs:132-135: the new spectrum is stored, the guard dropped.
HostWriteRelease ==
  /\ hpc = "store"
  /\ spectrum_data' = callbacks + 1
  /\ spectrum_data_lock' = "free"
  /\ hpc' = "gain"
  /\ UNCHANGED <<dpc, drawn, callbacks, analyserVars>>

\* lib.rs:167-203: the engine is unlocked, the gain applied, the peaks stored.
HostReturn ==
  /\ hpc = "gain"
  /\ callbacks' = callbacks + 1
  /\ hpc' = "idle"
  /\ UNCHANGED <<dpc, spectrum_data_lock, spectrum_data, drawn, analyserVars>>

\* ui/spectrum.rs:197-200: draw_spectrum takes the read guard, which it
\* keeps to the end of the function.
DrawSpectrumBegin ==
  /\ dpc = "idle"
  /\ spectrum_data_lock = "free"
  /\ spectrum_data_lock' = "read"
  /\ dpc' = "drawing"
  /\ UNCHANGED <<hpc, spectrum_data, drawn, callbacks, analyserVars>>

\* ui/spectrum.rs:202-291: the bins are smoothed and drawn, the guard dropped
\* on return.
DrawSpectrumEnd ==
  /\ dpc = "drawing"
  /\ drawn' = spectrum_data
  /\ spectrum_data_lock' = "free"
  /\ dpc' = "idle"
  /\ UNCHANGED <<hpc, spectrum_data, callbacks, analyserVars>>

\* ------------------------------------------------------------ construction
\* SpectrumProducerBuilder::build and the history's start.
Init ==
  /\ buffers = Build.buffers
  /\ back_info = Build.back_info
  /\ input_idx = Build.input_idx
  /\ output_idx = Build.output_idx
  /\ apc = "idle"
  /\ wi = 1
  /\ wframe = SilenceFrame
  /\ ring_buffer = [i \in 1..RingLen |-> Fin(0)]
  /\ ring_buffer_pos = 0
  /\ samples_since_fft = 0
  /\ time_domain_buffer = [i \in 1..SPECTRUM_WINDOW_SIZE_USIZE |-> Raw(Fin(0))]
  /\ spectrum_result = SilenceFrame
  /\ previous_spectrum = SilenceFrame
  /\ fft_failure_count = 0
  /\ mutex = "free"
  /\ rpc = [r \in Readers |-> "idle"]
  /\ ri = 1
  /\ rframe = SilenceFrame
  /\ result = [err |-> "unread", frame |-> SilenceFrame]
  /\ written = {}
  /\ lastCompleted = SilenceFrame
  /\ quiet = FALSE
  /\ prevFrame = [err |-> "unread", frame |-> SilenceFrame]
  /\ h0 = FALSE
  /\ h1 = FALSE
  /\ reads = 0
  /\ silences = 0
  /\ calls = 0
  /\ total = 0
  /\ recent = [i \in 1..SPECTRUM_WINDOW_SIZE_USIZE |-> Fin(0)]
  /\ passes = 0
  /\ last = [pass |-> FALSE, publish |-> FALSE, failed |-> {}, count_before |-> 0,
             previous_before |-> SilenceFrame, completed_before |-> SilenceFrame,
             ssf_before |-> 0, scr |-> FALSE, allocs |-> 0]
  /\ asteps = 0
  /\ rsteps = [r \in Readers |-> 0]
  /\ peak_left = CreateMeterChannels.peak_left
  /\ peak_right = CreateMeterChannels.peak_right
  /\ right_peak = Fin(MINUS_INFINITY_DB)
  /\ mpc = "idle"
  /\ left_db = Fin(MINUS_INFINITY_DB)
  /\ right_db = Fin(MINUS_INFINITY_DB)
  /\ state = CreateMeterChannels.state
  /\ stored = {}
  /\ peaks = 0
  /\ updates = 0
  /\ phase = "built"
  /\ window_size = SPECTRUM_WINDOW_SIZE_USIZE
  /\ requested = SPECTRUM_WINDOW_SIZE_USIZE
  /\ debug_assertions = FALSE
  /\ highs = 0
  /\ high = Fin(MINUS_INFINITY_DB)
  /\ since = 0
  /\ below = 0
  /\ decayed = FALSE
  /\ raws = <<>>
  /\ outs = <<>>
  /\ given = <<<<>>, 0>>
  /\ returned = <<>>
  /\ stamp = [s \in 0..2 |-> 0]
  /\ got = 0
  /\ before = 0
  /\ epc = "idle"
  /\ frames = 0
  /\ cycles = 0
  /\ hpc = "idle"
  /\ dpc = "idle"
  /\ spectrum_data_lock = "free"
  /\ spectrum_data = 0
  /\ drawn = 0
  /\ callbacks = 0
  /\ peaked = <<>>

\* ------------------------------------------------------------- construction
\* usize::is_power_of_two
IsPowerOfTwo(n) == n > 0 /\ \E k \in 0..n : 2 ^ k = n

\* spectrum.rs:211-215  assert_eq!(self.window_size.get(), SPECTRUM_WINDOW_SIZE_USIZE)
BuildAcceptsAny(size) == TRUE
BuildAccepts(size) == size = SPECTRUM_WINDOW_SIZE_USIZE

\* SpectrumProducer::builder(): the builder with its default window size, in
\* a build with or without debug assertions.  The producer's fields are held
\* from the start as build() creates them; nothing reads them before
\* phase = "built", and nothing reads debug_assertions after.
InitBuilder ==
  /\ buffers = Build.buffers
  /\ back_info = Build.back_info
  /\ input_idx = Build.input_idx
  /\ output_idx = Build.output_idx
  /\ apc = "idle"
  /\ wi = 1
  /\ wframe = SilenceFrame
  /\ ring_buffer = [i \in 1..RingLen |-> Fin(0)]
  /\ ring_buffer_pos = 0
  /\ samples_since_fft = 0
  /\ time_domain_buffer = [i \in 1..SPECTRUM_WINDOW_SIZE_USIZE |-> Raw(Fin(0))]
  /\ spectrum_result = SilenceFrame
  /\ previous_spectrum = SilenceFrame
  /\ fft_failure_count = 0
  /\ mutex = "free"
  /\ rpc = [r \in Readers |-> "idle"]
  /\ ri = 1
  /\ rframe = SilenceFrame
  /\ result = [err |-> "unread", frame |-> SilenceFrame]
  /\ written = {}
  /\ lastCompleted = SilenceFrame
  /\ quiet = FALSE
  /\ prevFrame = [err |-> "unread", frame |-> SilenceFrame]
  /\ h0 = FALSE
  /\ h1 = FALSE
  /\ reads = 0
  /\ silences = 0
  /\ calls = 0
  /\ total = 0
  /\ recent = [i \in 1..SPECTRUM_WINDOW_SIZE_USIZE |-> Fin(0)]
  /\ passes = 0
  /\ last = [pass |-> FALSE, publish |-> FALSE, failed |-> {}, count_before |-> 0,
             previous_before |-> SilenceFrame, completed_before |-> SilenceFrame,
             ssf_before |-> 0, scr |-> FALSE, allocs |-> 0]
  /\ asteps = 0
  /\ rsteps = [r \in Readers |-> 0]
  /\ peak_left = CreateMeterChannels.peak_left
  /\ peak_right = CreateMeterChannels.peak_right
  /\ right_peak = Fin(MINUS_INFINITY_DB)
  /\ mpc = "idle"
  /\ left_db = Fin(MINUS_INFINITY_DB)
  /\ right_db = Fin(MINUS_INFINITY_DB)
  /\ state = CreateMeterChannels.state
  /\ stored = {}
  /\ peaks = 0
  /\ updates = 0
  /\ phase = "builder"
  /\ window_size = SPECTRUM_WINDOW_SIZE_USIZE
  /\ requested = SPECTRUM_WINDOW_SIZE_USIZE
  /\ debug_assertions \in BOOLEAN
  /\ highs = 0
  /\ high = Fin(MINUS_INFINITY_DB)
  /\ since = 0
  /\ below = 0
  /\ decayed = FALSE
  /\ raws = <<>>
  /\ outs = <<>>
  /\ given = <<<<>>, 0>>
  /\ returned = <<>>
  /\ stamp = [s \in 0..2 |-> 0]
  /\ got = 0
  /\ before = 0
  /\ epc = "idle"
  /\ frames = 0
  /\ cycles = 0
  /\ hpc = "idle"
  /\ dpc = "idle"
  /\ spectrum_data_lock = "free"
  /\ spectrum_data = 0
  /\ drawn = 0
  /\ callbacks = 0
  /\ peaked = <<>>

\* SpectrumProducerBuilder::window_size: debug_assert!(size.is_power_of_two())
\* panics in a build with debug assertions and is compiled out otherwise.
WindowSize(size) ==
  /\ phase = "builder"
  /\ requested' = size
  /\ IF debug_assertions /\ ~IsPowerOfTwo(size)
     THEN phase' = "panicked" /\ UNCHANGED window_size
     ELSE window_size' = size /\ UNCHANGED phase
  /\ UNCHANGED <<chanVars, audioVars, prodVars, uiVars, histVars, prodHist, asteps, rsteps,
                 meterVars, levelHist, raws, outs, given, returned, extraVars, frameVars, stamp, got, before, peaked,
                 debug_assertions>>

\* SpectrumProducerBuilder::build: the assertion on the window size, then the
\* construction of the producer and the consumer.
BuilderBuild ==
  /\ phase = "builder"
  /\ phase' = IF BuildAccepts(window_size) THEN "built" ELSE "panicked"
  /\ UNCHANGED <<chanVars, audioVars, prodVars, uiVars, histVars, prodHist, asteps, rsteps,
                 meterVars, levelHist, raws, outs, given, returned, extraVars, frameVars, stamp, got, before, peaked, window_size,
                 requested,
                 debug_assertions>>

\* ------------------------------------------------------------------ inputs
SampleRate == 48000

Ramp(n) == [i \in 1..n |-> Fin(10 * n + i)]
Const(n, x) == [i \in 1..n |-> x]

\* Oracle spectra of the transform library: a level per bin.
Loud == [b \in 1..SPECTRUM_BINS |-> Fin(-6000)]
Soft == [b \in 1..SPECTRUM_BINS |-> Fin(-40000 - 1000 * b)]

\* What the library does in one pass: which transforms return Ok, whether the
\* input is used as scratch space, whether a partly huge window overflows, and
\* the spectra of the three windows.
Lib(ok0, okLow, okMid, okHigh, scr, ovf, mag) ==
  [ok0 |-> ok0, okLow |-> okLow, okMid |-> okMid, okHigh |-> okHigh,
   scr |-> scr, ovf |-> ovf, low |-> mag, mid |-> mag, high |-> mag]
LibOk(mag) == Lib(TRUE, TRUE, TRUE, TRUE, FALSE, FALSE, mag)

\* Relay runs: one hop of samples per callback.
ChanBuffer == <<Const(HopSize, Fin(1000))>>
ChanLibs == {LibOk(Loud)}

\* Meter runs: two stereo buffers with different levels.
Stereo(l, r) == <<<<Fin(l), Fin(l \div 2)>>, <<Fin(r \div 2), Fin(r)>>>>
MeterBuffers == {Stereo(1000, 1000), Stereo(250, 250)}

\* Producer runs: buffer sizes around the hop, the window and the ring length,
\* one and two channels, no channel; zero, huge and NaN samples; and the
\* library's failures and liberties.
Sizes == {1, HopSize, HopSize + 1, SPECTRUM_WINDOW_SIZE_USIZE, RingLen + 1}
PipeInputs ==
  ({<<Ramp(n)>> : n \in Sizes}
     \cup {<<>>, <<Ramp(HopSize), Const(HopSize, Fin(0))>>}
     \cup {<<Const(SPECTRUM_WINDOW_SIZE_USIZE, x)>> : x \in {Huge, NaN}})
    \X {LibOk(Loud)}
  \cup
  {<<Ramp(HopSize)>>}
    \X {Lib(FALSE, TRUE, TRUE, TRUE, FALSE, FALSE, Loud),
        Lib(TRUE, FALSE, TRUE, TRUE, FALSE, FALSE, Loud),
        Lib(TRUE, TRUE, TRUE, FALSE, TRUE, TRUE, Soft)}

\* ---------------------------------------------------------- specifications
\* The spectrum relay: the audio thread against two clones of the consumer.
Next ==
  \/ calls + silences < MaxCalls /\ \E lib \in ChanLibs : Process(ChanBuffer, SampleRate, lib)
  \/ calls + silences < MaxCalls /\ WriteSilence
  \/ WriteCopy
  \/ WritePublish
  \/ \E r \in Readers : reads < MaxReads /\ ReadLock(r)
  \/ \E r \in Readers : reads < MaxReads /\ ReadLockFailed(r)
  \/ \E r \in Readers : ReadUpdate(r)
  \/ \E r \in Readers : ReadSwap(r)
  \/ \E r \in Readers : ReadCopy(r)
  \/ \E r \in Readers : ReadReturn(r)

Spec == Init /\ [][Next]_vars

\* The meter relay: update_peaks against MeterConsumer::update.
NextMeter ==
  \/ peaks < MaxPeaks /\ \E buffer \in MeterBuffers : UpdatePeaks(buffer)
  \/ StoreRight
  \/ updates < MaxUpdates /\ MeterLoadLeft
  \/ MeterLoadRight
  \/ MeterApply

SpecMeter == Init /\ [][NextMeter]_vars

\* The producer alone, on every kind of input.
NextPipe ==
  \/ calls + silences < MaxCalls /\ \E in \in PipeInputs : Process(in[1], SampleRate, in[2])
  \/ calls + silences < MaxCalls /\ WriteSilence
  \/ WriteCopy
  \/ WritePublish

SpecPipe == Init /\ [][NextPipe]_vars

\* Construction, then the producer: the sizes asked for are around the one
\* size build() supports, powers of two or not.
WindowSizes == {SPECTRUM_WINDOW_SIZE_USIZE - 1, SPECTRUM_WINDOW_SIZE_USIZE,
                SPECTRUM_WINDOW_SIZE_USIZE + 2, 2 * SPECTRUM_WINDOW_SIZE_USIZE}
NextBuild ==
  \/ \E size \in WindowSizes : WindowSize(size)
  \/ BuilderBuild
  \/ phase = "built" /\ calls + silences < MaxCalls
       /\ \E in \in PipeInputs : Process(in[1], SampleRate, in[2])
  \/ phase = "built" /\ calls + silences < MaxCalls /\ WriteSilence
  \/ WriteCopy
  \/ WritePublish

SpecBuild == InitBuilder /\ [][NextBuild]_vars

\* The producer on silent input: a hop of zeros per callback, for ever.  The
\* host keeps calling process(), and a write() once begun runs to its end.
\* The host's rate in this run puts bins 0..2 at 0 Hz, 2 kHz and 4 kHz.
QuietRate == 8000

NextQuiet ==
  \/ \E lib \in ChanLibs : ProcessZeros(QuietRate, lib)
  \/ WriteCopy
  \/ WritePublish

SpecQuiet ==
  /\ Init /\ [][NextQuiet]_vars
  /\ WF_vars(\E lib \in ChanLibs : ProcessZeros(QuietRate, lib))
  /\ WF_vars(WriteCopy) /\ WF_vars(WritePublish)

Silent == <<Const(2, Fin(0)), Const(2, Fin(0))>>

\* update_peaks alone, on buffers of no, one, two and three channels, with
\* no samples, zeros, a NaN and an infinite sample.
PeakBuffers ==
  {Silent, Stereo(1000, 250), Stereo(1000, 250) \o <<Const(2, Fin(2000))>>,
   <<Const(2, Fin(0)), <<Fin(500), PInf>>>>, <<<<NInf, Fin(0)>>, Const(2, Fin(125))>>,
   <<>>, <<<<>>, <<>>>>, <<<<NaN, Fin(500)>>>>, <<<<Fin(0), Fin(250)>>>>}

SpecPeaks ==
  Init /\ [][\/ peaks < MaxPeaks /\ \E buffer \in PeakBuffers : UpdatePeaks(buffer)
             \/ StoreRight]_vars

\* The meter over time: callbacks that store the peaks of a loud, a
\* non-finite or a silent buffer, and the editor's update per frame.  Sound
\* comes before the first loud update or straight after a loud one.  The host
\* keeps delivering callbacks and the editor keeps drawing.
LevelBuffers == {Silent, Stereo(1000, 250), <<Const(2, Fin(0)), <<Fin(500), PInf>>>>}

NextLevels ==
  \/ \E buffer \in LevelBuffers :
       /\ buffer # Silent => (highs = 0 \/ since = 0)
       /\ StorePeaks(buffer)
  \/ Update(MaxHighs)

SpecLevels ==
  /\ Init /\ [][NextLevels]_vars
  /\ WF_vars(StorePeaks(Silent))
  /\ WF_vars(Update(MaxHighs))

\* The meter at a steady level: the callbacks store one level, which the
\* editor's updates then load for longer than the hold time.
SpecHold ==
  Init /\ [][\/ \E buffer \in {Silent, Stereo(1000, 250)} : highs = 0 /\ StorePeaks(buffer)
             \/ Update(HoldRuns)]_vars

\* The smoother alone, fed raw frames of two levels per bin from its state
\* after construction.
SpecSmooth ==
  Init /\ [][\E raw \in [1..SPECTRUM_BINS -> {Fin(-60000), Fin(-30000)}] :
              Smooth(raw, SampleRate)]_vars

\* The frequency smoothing alone, on frames of two levels per bin, at rates
\* that put the inner bins at or below 800 Hz and in each of the three bands.
SpecFrequency ==
  Init /\ [][\E spectrum \in [1..FrameLen -> {Fin(-60000), Fin(-30000)}] :
              \E sample_rate \in {1600, 2400, 8000, 48000} :
                FrequencySmooth(spectrum, sample_rate)]_vars

\* The editor rendering frames of a steady level or of silence, stored by the
\* callbacks before the first frame.
SpecFrames ==
  Init /\ [][\/ \E buffer \in {Silent, Stereo(1000, 250)} : cycles = 0 /\ StorePeaks(buffer)
             \/ EditorView(MaxFrames)
             \/ DrawLevelBars(MaxFrames)]_vars

\* The producer alternating hops of samples with write_silence.
SpecSilence ==
  Init /\ [][\/ /\ calls + silences < MaxOps
                /\ \E n \in {1, HopSize} : Process(<<Ramp(n)>>, SampleRate, LibOk(Loud))
             \/ calls + silences < MaxOps /\ WriteSilence
             \/ WriteCopy
             \/ WritePublish]_vars

\* The legacy host callback against the spectrum canvas.  The host runs the
\* callback to its end whenever it can take a step; the display thread may
\* stop anywhere, also inside draw_spectrum.
SpecHost ==
  /\ Init
  /\ [][\/ HostProcess(MaxCallbacks)
        \/ HostWriteAcquire
        \/ HostWriteRelease
        \/ HostReturn
        \/ DrawSpectrumBegin
        \/ DrawSpectrumEnd]_vars
  /\ WF_vars(HostWriteAcquire)
  /\ WF_vars(HostWriteRelease)
  /\ WF_vars(HostReturn)

\* Both relays at once: every producer operation against every consumer.
Started == calls + silences + peaks + updates + reads + Cardinality({r \in Readers : rpc[r] # "idle"})
                  + (IF mpc # "idle" THEN 1 ELSE 0)
NextAll ==
  \/ Started < MaxOps
       /\ \E lib \in ChanLibs : Process(ChanBuffer, SampleRate, lib)
  \/ Started < MaxOps /\ WriteSilence
  \/ Started < MaxOps /\ UpdatePeaks(Stereo(1000, 250))
  \/ WriteCopy
  \/ WritePublish
  \/ StoreRight
  \/ \E r \in Readers : Started < MaxOps /\ ReadLock(r)
  \/ \E r \in Readers : Started < MaxOps /\ ReadLockFailed(r)
  \/ \E r \in Readers : ReadUpdate(r)
  \/ \E r \in Readers : ReadSwap(r)
  \/ \E r \in Readers : ReadCopy(r)
  \/ \E r \in Readers : ReadReturn(r)
  \/ Started < MaxOps /\ MeterLoadLeft
  \/ MeterLoadRight
  \/ MeterApply

SpecAll == Init /\ [][NextAll]_vars

\* ------------------------------------------------------------------ claims
\* The frame a read() started now would return: the back slot's if it was
\* published since the last swap, the output slot's otherwise.
VisibleFrame ==
  IF Updated(back_info) THEN buffers[back_info.idx] ELSE buffers[output_idx]

\* C1: every frame a read obtains is, element for element, the initial
\* all-floor frame or the whole frame handed to one write; never a mix.
C1_ReadsAreWholeFrames ==
  /\ result.err = "none" => result.frame \in {SilenceFrame} \cup written
  /\ \A r \in Readers : rpc[r] = "unlock" => rframe \in {SilenceFrame} \cup written

\* A read that overlapped the producer's writing has copied out the frame of a
\* write while the next write is halfway through its copy.
C1_Witness ==
  \E r \in Readers :
    /\ rpc[r] = "unlock" /\ ~quiet
    /\ rframe \in written /\ rframe # SilenceFrame
    /\ apc = "copy" /\ wi > 1

\* C2: the pair MeterConsumer::update has loaded is the initial pair or the
\* pair stored by one update_peaks call.
C2_LoadedPairIsOneStoredPair ==
  mpc = "lock" =>
    <<left_db, right_db>> \in
      {<<CreateMeterChannels.peak_left, CreateMeterChannels.peak_right>>} \cup stored

\* C3: a read during which no producer write was in progress returns the frame
\* of the last completed write (the initial frame before any); and a read
\* returns the frame of the read before it when no write completed since that
\* read began.
C3_QuietReadIsLatest ==
  \A r \in Readers : rpc[r] = "unlock" =>
    /\ quiet => rframe = lastCompleted
    /\ (h0 /\ h1 /\ prevFrame.err = "none") => rframe = prevFrame.frame

\* The second of two reads after a completed process() write, with the audio
\* thread idle throughout.
C3_Witness ==
  \E r \in Readers :
    /\ rpc[r] = "unlock" /\ quiet /\ h0 /\ h1
    /\ prevFrame.err = "none"
    /\ lastCompleted # SilenceFrame
    /\ rframe = lastCompleted

\* C4: no operation waits for the other thread.  Whatever the other threads'
\* positions, the audio thread can start each of its operations when idle and
\* take the next step of the one in progress, which ends within
\* SPECTRUM_BINS + 2 steps; a clone can always start read() (acquiring the
\* lock or returning LockFailed) and take the next step of the read in
\* progress, which ends within SPECTRUM_BINS + 4 steps.  (Entry is tried
\* here with a one-sample callback for process() and a buffer without channels
\* for update_peaks(); the later steps of a callback that runs a pass are the
\* element copies and the publish, those of update_peaks() the second store.)
C4_NoWaiting ==
  /\ apc = "idle" =>
       /\ ENABLED Process(<<Const(1, Fin(1000))>>, SampleRate, LibOk(Loud))
       /\ ENABLED WriteSilence
       /\ ENABLED UpdatePeaks(<<>>)
  /\ apc = "copy" => ENABLED WriteCopy
  /\ apc = "publish" => ENABLED WritePublish
  /\ apc = "store_right" => ENABLED StoreRight
  /\ asteps <= SPECTRUM_BINS + 1
  /\ \A r \in Readers :
       /\ rpc[r] = "idle" => ENABLED (ReadLock(r) \/ ReadLockFailed(r))
       /\ rpc[r] = "update" => ENABLED ReadUpdate(r)
       /\ rpc[r] = "swap" => ENABLED ReadSwap(r)
       /\ rpc[r] = "copy" => ENABLED ReadCopy(r)
       /\ rpc[r] = "unlock" => ENABLED ReadReturn(r)
       /\ rsteps[r] <= SPECTRUM_BINS + 3

\* The writer is halfway through its copy, one clone halfway through copying
\* out under the lock, and the other clone's read() has returned LockFailed.
C4_Witness ==
  /\ apc = "copy" /\ wi > 1
  /\ \E r \in Readers : rpc[r] = "copy" /\ ri > 1
  /\ result.err = "LockFailed"

\* C5: the three slots always hold three distinct roles, so the slot being
\* written is never the slot being read.
C5_SlotsDistinct ==
  /\ Cardinality({input_idx, output_idx, back_info.idx}) = 3
  /\ (apc = "copy" /\ \E r \in Readers : rpc[r] = "copy") => input_idx # output_idx

\* Writer and reader both mid-copy after the roles have rotated on both sides.
C5_Witness ==
  /\ apc = "copy" /\ wi > 1
  /\ \E r \in Readers : rpc[r] = "copy" /\ ri > 1
  /\ input_idx # Build.input_idx
  /\ output_idx # Build.output_idx

\* C6: every frame handed to write() has all its elements finite and not below
\* SPECTRUM_FLOOR_DB.
C6_PublishedFramesFinite ==
  \A f \in written : \A b \in 1..SPECTRUM_BINS :
    IsFinite(f[b]) /\ f[b].v >= SPECTRUM_FLOOR_DB

\* C7: a pass in which any transform returned an error has increased
\* fft_failure_count by one; any other call has left it unchanged.
C7_CounterCountsFailedPasses ==
  fft_failure_count =
    last.count_before + (IF last.pass /\ last.failed # {} THEN 1 ELSE 0)

\* C8: a process() call in which a transform failed has begun no write and has
\* left the visible frame and previous_spectrum as they were; a pass without a
\* failure publishes.
C8_FailedPassPublishesNothing ==
  /\ (last.pass /\ last.failed # {}) =>
       /\ ~last.publish
       /\ apc = "idle"
       /\ VisibleFrame = last.completed_before
       /\ previous_spectrum = last.previous_before
  /\ (last.pass /\ last.failed = {}) => last.publish

\* C9: the k-th pass happens when exactly k * HopSize samples have been pushed,
\* and resets samples_since_fft.
C9_PassEveryHop ==
  last.pass => (total = passes * HopSize /\ samples_since_fft = 0)

\* C10: copy_from_ring_buffer yields the last SPECTRUM_WINDOW_SIZE_USIZE
\* elements of (zeros followed by every sample pushed), oldest first: as a
\* function of the ring in every state, and in time_domain_buffer after a pass
\* (where the transform has not used the buffer as scratch space).
C10_SnapshotIsRecentHistory ==
  /\ CopyFromRingBuffer(ring_buffer, ring_buffer_pos) = recent
  /\ (last.pass /\ ~last.scr) =>
       \A i \in 1..SPECTRUM_WINDOW_SIZE_USIZE : time_domain_buffer[i].x = recent[i]

\* A pass after the ring has wrapped around, with the window straddling the
\* end of the ring.
C10_Witness ==
  /\ last.pass /\ ~last.scr
  /\ total > RingLen
  /\ ring_buffer_pos > 0 /\ ring_buffer_pos < SPECTRUM_WINDOW_SIZE_USIZE
  /\ \A i \in 1..SPECTRUM_WINDOW_SIZE_USIZE : recent[i] # Fin(0)

\* C11: a read that began after write_silence returned, with no producer write
\* since, returns a frame whose every bin is SPECTRUM_FLOOR_DB.
C11_SilenceIsRead ==
  \A r \in Readers :
    (rpc[r] = "unlock" /\ quiet /\ apc = "idle" /\ ~last.pass /\ last.publish) =>
      \A b \in 1..SPECTRUM_BINS : rframe[b] = Fin(SPECTRUM_FLOOR_DB)

\* The read before returned the frame process() had published, above the floor;
\* write_silence then ran to its end, and this read has copied its frame out.
C11_Witness ==
  \E r \in Readers :
    /\ rpc[r] = "unlock" /\ quiet /\ apc = "idle" /\ ~last.pass /\ last.publish
    /\ prevFrame.err = "none" /\ prevFrame.frame # SilenceFrame
    /\ last.completed_before = prevFrame.frame
    /\ rframe = SilenceFrame

\* C12: a producer exists, and process() or write_silence() has run, only if
\* the size the builder was last configured with is a power of two (the one
\* size build() supports); a size that is not one ends in a panic of
\* window_size() or of build().
C12_NonPowerOfTwoRejected ==
  /\ phase = "built" =>
       (IsPowerOfTwo(requested) /\ requested = SPECTRUM_WINDOW_SIZE_USIZE)
  /\ phase # "built" => (calls = 0 /\ silences = 0 /\ apc = "idle")
  /\ (phase = "panicked" /\ debug_assertions /\ IsPowerOfTwo(requested)) =>
       requested # SPECTRUM_WINDOW_SIZE_USIZE

\* Without debug assertions window_size() took a size that is not a power of
\* two, and build() panicked on it.
C12_Witness ==
  /\ phase = "panicked" /\ ~debug_assertions
  /\ ~IsPowerOfTwo(requested) /\ window_size = requested

\* C13: on input that is silent for good, every bin of the published frame
\* comes and stays within Tolerance of SPECTRUM_FLOOR_DB.  On silent input the
\* next frame is a function of the ring (all zeros) and of previous_spectrum,
\* so a pass that publishes again the frame it started from publishes it for
\* ever: convergence requires such a frame to be within Tolerance of the floor.
C13_SilenceConvergesToFloor ==
  (/\ apc = "idle"
   /\ \A i \in 1..RingLen : ring_buffer[i] = Fin(0)
   /\ lastCompleted = previous_spectrum
   /\ PassOf(<<[i \in 1..HopSize |-> Fin(0)]>>, QuietRate, LibOk(Loud)).result
        = previous_spectrum)
  => \A b \in 1..SPECTRUM_BINS :
       /\ IsFinite(lastCompleted[b])
       /\ lastCompleted[b].v <= SPECTRUM_FLOOR_DB + Tolerance

\* C14: once every pair loaded by update is the floor, smoothed_left and
\* smoothed_right come to MINUS_INFINITY_DB and stay there.
C14_SmoothedReachesFloor ==
  <>[](IsFloorPair(peak_left, peak_right) /\ IsFloorPair(left_db, right_db))
    => <>[](IsFloorPair(state.smoothed_left, state.smoothed_right))

\* C15: after exactly one update that loaded a level above the floor,
\* peak_hold_value equals that level after it and after each of the next
\* PEAK_HOLD_CYCLES - 1 all-floor updates, and is MINUS_INFINITY_DB from the
\* PEAK_HOLD_CYCLES-th all-floor update on.
C15_PeakHeldForHoldCycles ==
  highs = 1 =>
    /\ since < PEAK_HOLD_CYCLES => state.peak_hold_value = high
    /\ since >= PEAK_HOLD_CYCLES => state.peak_hold_value = Fin(MINUS_INFINITY_DB)

C15_Witness ==
  /\ highs = 1
  /\ since = PEAK_HOLD_CYCLES - 1
  /\ high # Fin(MINUS_INFINITY_DB)
  /\ state.peak_hold_value = high

\* C16: in a bin whose raw values rise strictly over two or more passes the
\* smoothed value never falls from one pass to the next and is at most the raw
\* value of its pass; in a bin whose raw values fall strictly it never rises
\* and is at least the raw value of its pass.
C16_AttackReleaseMonotone ==
  \A b \in 1..SPECTRUM_BINS :
    LET n == Len(raws)
        rising == n >= 2 /\ \A i \in 1..n - 1 : FLt(raws[i][b], raws[i + 1][b])
        falling == n >= 2 /\ \A i \in 1..n - 1 : FGt(raws[i][b], raws[i + 1][b])
    IN /\ rising => /\ \A i \in 1..n - 1 : ~FGt(outs[i][b], outs[i + 1][b])
                    /\ \A i \in 1..n : ~FGt(outs[i][b], raws[i][b])
       /\ falling => /\ \A i \in 1..n - 1 : ~FLt(outs[i][b], outs[i + 1][b])
                     /\ \A i \in 1..n : ~FLt(outs[i][b], raws[i][b])

\* C17: the buffer compute_adaptive_magnitude_spectrum saves as the original,
\* hands to all three transforms and restores into time_domain_buffer is the
\* ring snapshot itself: the latest SPECTRUM_WINDOW_SIZE_USIZE mono samples,
\* multiplied by no window and not rewritten by a transform.
C17_TransformsTakeRawSnapshot ==
  (last.pass /\ last.publish) =>
    \A i \in 1..SPECTRUM_WINDOW_SIZE_USIZE : time_domain_buffer[i] = Raw(recent[i])

\* C18: every level update_peaks has stored, on either channel, is finite and
\* at least MINUS_INFINITY_DB, and an all-zero buffer yields the floor on both.
C18_PublishedLevelsFinite ==
  /\ \A p \in stored : \A c \in 1..2 : IsFinite(p[c]) /\ p[c].v >= MINUS_INFINITY_DB
  /\ IsFloorPair(CalculatePeakLevels(Silent)[1], CalculatePeakLevels(Silent)[2])

\* C19: after update_peaks on a buffer of two or more channels peak_left is
\* the level of the greatest absolute sample of channel 0 and peak_right that
\* of channel 1, whatever the other channels hold; after update_peaks on a
\* one-channel buffer peak_left and peak_right are equal.
C19_PeaksPerChannel ==
  LET IsPeakOf(v, channel) ==
        /\ \A i \in 1..Len(channel) : ~FGt(GainToDb(channel[i]), v)
        /\ \/ v = Fin(MINUS_INFINITY_DB)
           \/ \E i \in 1..Len(channel) : v = GainToDb(channel[i])
  IN (stored # {} /\ apc = "idle") =>
       /\ Channels(peaked) >= 2 =>
            IsPeakOf(peak_left, peaked[1]) /\ IsPeakOf(peak_right, peaked[2])
       /\ Channels(peaked) = 1 =>
            IsPeakOf(peak_left, peaked[1]) /\ peak_right = peak_left

C19_Witness ==
  /\ apc = "idle"
  /\ Channels(peaked) = 3
  /\ peak_left = Fin(0)
  /\ FLt(peak_right, peak_left)
  /\ FGt(GainToDb(peaked[3][1]), peak_left)

\* C20: no call of process allocates on the heap, whether or not it runs an
\* analysis pass.
C20_ProcessDoesNotAllocate == last.allocs = 0

\* C21: after every update peak_hold_value is at least the greater of the two
\* readings that update loaded.
C21_HoldCoversReading ==
  (highs > 0 \/ since > 0) =>
    ~FLt(state.peak_hold_value, FMax(left_db, right_db))

\* C22: an update's silence detection lowers a smoothed level only when the
\* greater smoothed level has been below SILENCE_THRESHOLD_DB in more than 30
\* updates in a row, this one included; an update that finds it at or above
\* the threshold leaves silence_counter at 0 and lowers nothing.
C22_DecayOnlyAfterDebounce ==
  (highs > 0 \/ since > 0) =>
    /\ decayed => below > 30
    /\ below = 0 => state.silence_counter = 0 /\ ~decayed

C22_Witness ==
  /\ decayed
  /\ below = 31
  /\ highs > 0
  /\ FLt(Fin(MINUS_INFINITY_DB), state.smoothed_left)

\* C28: after every update peak_hold_value is the greater of peak_hold_left
\* and peak_hold_right, and peak_hold_counter is below PEAK_HOLD_CYCLES.
C28_HoldIsMaxAndCounterBounded ==
  (highs > 0 \/ since > 0) =>
    /\ state.peak_hold_value = FMax(state.peak_hold_left, state.peak_hold_right)
    /\ state.peak_hold_counter < PEAK_HOLD_CYCLES

C28_Witness ==
  /\ state.peak_hold_counter = PEAK_HOLD_CYCLES - 1
  /\ FLt(state.peak_hold_right, state.peak_hold_left)
  /\ state.peak_hold_value = state.peak_hold_left

\* C23: the frame apply_frequency_dependent_smoothing returns has the given
\* value in the first bin, in the last bin and in every bin at or below
\* 800 Hz, and in each bin either the given value or one of the three
\* weighted means taken over the given frame.
C23_SmoothingReadsInputOnly ==
  LET spectrum == given[1]
      sample_rate == given[2]
      \* 0.1, 0.2, 0.4, 0.2, 0.1 over the given bins b-2 .. b+2, the outer
      \* two falling back to the first bin and to bin b at the edges
      OfGiven(b) ==
        FAdd(FAdd(FAdd(FAdd(FMulQ(spectrum[Max(b - 2, 1)], 1, 10), FMulQ(spectrum[b - 1], 2, 10)),
                       FMulQ(spectrum[b], 4, 10)), FMulQ(spectrum[b + 1], 2, 10)),
             FMulQ(IF b + 2 <= Len(spectrum) THEN spectrum[b + 2] ELSE spectrum[b], 1, 10))
  IN \A b \in 1..Len(returned) :
       /\ (b = 1 \/ b = Len(spectrum) \/ BinFreq(b - 1, sample_rate) <= SMOOTHING_MID_FREQ_HZ)
            => returned[b] = spectrum[b]
       /\ \/ returned[b] = spectrum[b]
          \/ /\ 1 < b /\ b < Len(spectrum)
             /\ returned[b] \in
                  {OfGiven(b),
                   GaussianSmoothed(spectrum, b - 1, MID_HIGH_FREQ_KERNEL_SIZE,
                                    GAUSSIAN_SIGMA_MODERATE),
                   GaussianSmoothed(spectrum, b - 1, HIGH_FREQ_KERNEL_SIZE,
                                    GAUSSIAN_SIGMA_STRONG)}

C23_Witness ==
  /\ Len(returned) = FrameLen
  /\ \E b \in 2..(FrameLen - 2) :
       /\ BinFreq(b - 1, given[2]) <= SMOOTHING_MID_FREQ_HZ
       /\ given[1][b] # given[1][b + 1]
       /\ returned[b] = given[1][b]
       /\ returned[b + 1] # given[1][b + 1]
       /\ returned[b + 2] # given[1][b + 2]

\* C24: a host callback that has reached the store of the new spectrum
\* returns, whatever the display thread does or fails to do.
C24_CallbackCompletes == (hpc = "write") ~> (hpc = "idle")

\* C25: between frames, MeterConsumer::update has run as many times as
\* frames were rendered.
C25_OneUpdatePerFrame == epc = "idle" => cycles = frames

C27_PreviousIsPublished ==
  last.pass /\ last.publish =>
    /\ previous_spectrum = wframe
    /\ previous_spectrum = spectrum_result
    /\ apc = "idle" => previous_spectrum = lastCompleted

C27_Witness ==
  /\ last.pass /\ last.publish
  /\ passes = 2
  /\ apc = "idle"
  /\ previous_spectrum = lastCompleted
  /\ previous_spectrum # last.previous_before
  /\ \E b \in 1..SPECTRUM_BINS : previous_spectrum[b] # previous_spectrum[1]

\* C29: the frame a read returns is never of an earlier write than the frame
\* the read before it returned.
C29_ReadsNeverGoBack == before <= got

C29_Witness ==
  /\ reads = 2
  /\ before = 1
  /\ got = 2
  /\ prevFrame = Ok(lastCompleted)

\* C30: a step of write_silence leaves ring_buffer, ring_buffer_pos,
\* samples_since_fft, previous_spectrum and fft_failure_count as they were,
\* and a pass made by the call of process that follows write_silence starts
\* from the previous_spectrum write_silence found.
C30_SilenceKeepsAnalysisState ==
  [][/\ silences' # silences =>
          UNCHANGED <<ring_buffer, ring_buffer_pos, samples_since_fft, previous_spectrum,
                      fft_failure_count>>
     /\ (calls' # calls /\ last'.pass /\ last.publish /\ ~last.pass) =>
          last'.previous_before = last.previous_before]_vars

C30_Witness ==
  /\ silences = 1
  /\ calls = 2
  /\ last.pass /\ last.publish
  /\ last.completed_before = silence
  /\ last.previous_before # silence
  /\ previous_spectrum # last.previous_before

====
